---- MODULE Spec2Model ----
(***************************************************************************)
(* GroceryNana backend (backend/src/main.rs): startup sequence of main,    *)
(* the actix-web application it builds (middleware stack and two routes)   *)
(* and the two handlers hello_world and health_check, together with the    *)
(* environment they run against: the SQLite database behind the sqlx pool, *)
(* the TCP port, and the process supervisor that starts and stops it.      *)
(***************************************************************************)
EXTENDS Naturals, Integers, Sequences, FiniteSets, TLC

(* ------------------------------- bounds -------------------------------- *)

\* Connections the pool hands out at once (sqlx default is larger; scaled down).
PoolSize == 1

\* Migration scripts embedded by migrate!("./migrations"), versions 1..NumMigrations.
NumMigrations == 2

\* Requests in flight at once: enough to exceed the pool and still have one more.
MaxReq == PoolSize + 2

Requests == 1..MaxReq

(* ------------------------------ constants ------------------------------ *)

DefaultUrl == "sqlite:./database.db"

\* Values the environment can give DATABASE_URL ("UNSET": variable absent).
EnvValues == {"UNSET", "sqlite:./database.db", "sqlite:/no/such/dir/database.db"}

Routes == {"/", "/api/health", "/other"}

NoResponse == [status |-> 0, body |-> [message |-> ""]]

VARIABLES
    pc,               \* position of main: start, connect, migrate, bind, serving, or a terminal state
    databaseUrl,      \* the local database_url of main
    poolCreated,      \* SqlitePool::connect returned Ok in this run
    migrationsDone,   \* Migrator::run returned Ok in this run
    mIdx,             \* next migration version Migrator::run looks at
    listenerBound,    \* 0.0.0.0:8080 is bound by this process
    exitCode,         \* -1 while running, 0 clean shutdown, 1 Err from main, 101 panic
    applied,          \* _sqlx_migrations table of the database file: versions in order applied
    migratedAtStart,  \* all migrations were recorded as applied when this run started
    dbUp,             \* the database file is reachable (environment)
    inUse,            \* pool connections currently checked out
    rPc,              \* per request: idle, accepted, handler, acquire, query, done
    rRoute,           \* per request: path of the GET request
    rQuery,           \* per request: result of fetch_one: None, Ok, PoolTimedOut, Io
    rAttempts,        \* per request: number of times the liveness query was issued
    rResp,            \* per request: response sent
    rTrace            \* per request: middleware / handler / log events in order

vars == <<pc, databaseUrl, poolCreated, migrationsDone, mIdx, listenerBound, exitCode,
          applied, migratedAtStart, dbUp, inUse,
          rPc, rRoute, rQuery, rAttempts, rResp, rTrace>>

procVars == <<pc, databaseUrl, poolCreated, migrationsDone, mIdx, listenerBound, exitCode,
              migratedAtStart>>

reqVars == <<rPc, rRoute, rQuery, rAttempts, rResp, rTrace>>

(* ------------------------------ responses ------------------------------ *)

HelloResponse(message) == [message |-> message]

HealthResponse(status, message) == [status |-> status, message |-> message]

\* hello_world with a wrong status code.
hello_world_failing ==
    [status |-> 500, body |-> HelloResponse("Hello World from GroceryNana Backend!")]

hello_world ==
    [status |-> 200, body |-> HelloResponse("Hello World from GroceryNana Backend!")]

\* health_check with the arms of the match answering ok whatever the query returned.
health_check_always_ok(result) ==
    [status |-> 200, body |-> HealthResponse("ok", "Database connected")]

\* The match of health_check on the result of fetch_one.
health_check(result) ==
    IF result = "Ok"
    THEN [status |-> 200, body |-> HealthResponse("ok", "Database connected")]
    ELSE [status |-> 500, body |-> HealthResponse("error", "Database connection failed")]

\* Log records the Err arm of health_check writes about the underlying error: none.
health_check_log(result) == << >>

NotFoundResponse == [status |-> 404, body |-> [message |-> ""]]

(* ------------------------------ middleware ----------------------------- *)

Reverse(s) == [i \in 1..Len(s) |-> s[Len(s) + 1 - i]]

\* App::wrap putting the new middleware innermost.
WrapInner(chain, mw) == Append(chain, mw)

\* App::wrap: the middleware registered last is the outermost layer, the first a
\* request meets. A chain lists the layers outermost first.
Wrap(chain, mw) == <<mw>> \o chain

\* The stack main registers: .wrap(cors).wrap(Logger::default()).
Middleware == Wrap(Wrap(<< >>, "Cors"), "Logger")

\* Events of a request going in through the layers, then reaching the handler.
InboundTrace == [i \in 1..Len(Middleware) |-> <<Middleware[i], "in">>]

\* Events of the response going back out: Cors adds its headers, Logger writes the
\* access-log record.
OutboundTrace == [i \in 1..Len(Middleware) |-> <<Reverse(Middleware)[i], "out">>]

(* -------------------------------- startup ------------------------------ *)

AllApplied == \A v \in 1..NumMigrations : \E i \in 1..Len(applied) : applied[i] = v

IsApplied(v) == \E i \in 1..Len(applied) : applied[i] = v

UrlValid(url) == url = DefaultUrl

IdleRequests ==
    /\ rPc = [r \in Requests |-> "idle"]
    /\ rRoute = [r \in Requests |-> "/"]
    /\ rQuery = [r \in Requests |-> "None"]
    /\ rAttempts = [r \in Requests |-> 0]
    /\ rResp = [r \in Requests |-> NoResponse]
    /\ rTrace = [r \in Requests |-> << >>]

Init ==
    /\ pc = "start"
    /\ databaseUrl = ""
    /\ poolCreated = FALSE
    /\ migrationsDone = FALSE
    /\ mIdx = 1
    /\ listenerBound = FALSE
    /\ exitCode = -1
    /\ applied = << >>
    /\ migratedAtStart = FALSE
    /\ dbUp = TRUE
    /\ inUse = 0
    /\ IdleRequests

\* main, lines 43-48: dotenv, env_logger, DATABASE_URL or the default.
LoadConfig ==
    /\ pc = "start"
    /\ \E env \in EnvValues :
         databaseUrl' = IF env = "UNSET" THEN DefaultUrl ELSE env
    /\ pc' = "connect"
    /\ UNCHANGED <<poolCreated, migrationsDone, mIdx, listenerBound, exitCode,
                   applied, migratedAtStart, dbUp, inUse>>
    /\ UNCHANGED reqVars

\* SqlitePool::connect(..).expect(..) going on after a failed connect.
ConnectPoolLenient ==
    /\ pc = "connect"
    /\ poolCreated' = (UrlValid(databaseUrl) /\ dbUp)
    /\ pc' = "migrate"
    /\ UNCHANGED <<databaseUrl, migrationsDone, mIdx, listenerBound, exitCode,
                   applied, migratedAtStart, dbUp, inUse>>
    /\ UNCHANGED reqVars

\* main, lines 51-53: SqlitePool::connect(&database_url).await.expect(..).
ConnectPool ==
    /\ pc = "connect"
    /\ IF UrlValid(databaseUrl) /\ dbUp
       THEN /\ poolCreated' = TRUE
            /\ pc' = "migrate"
            /\ exitCode' = exitCode
       ELSE /\ poolCreated' = FALSE
            /\ pc' = "aborted_pool"
            /\ exitCode' = 101
    /\ UNCHANGED <<databaseUrl, migrationsDone, mIdx, listenerBound,
                   applied, migratedAtStart, dbUp, inUse>>
    /\ UNCHANGED reqVars

\* One migration of Migrator::run applied without looking at what is recorded.
MigrateStepReapply ==
    /\ pc = "migrate"
    /\ mIdx <= NumMigrations
    /\ IF ~dbUp
       THEN /\ pc' = "aborted_migrate"
            /\ exitCode' = 101
            /\ UNCHANGED <<applied, mIdx>>
       ELSE /\ applied' = IF Len(applied) < NumMigrations + 1
                          THEN Append(applied, mIdx) ELSE applied
            /\ mIdx' = mIdx + 1
            /\ UNCHANGED <<pc, exitCode>>
    /\ UNCHANGED <<databaseUrl, poolCreated, migrationsDone, listenerBound,
                   migratedAtStart, dbUp, inUse>>
    /\ UNCHANGED reqVars

\* main, lines 56-59: one iteration of Migrator::run over the embedded migrations in
\* ascending version order: a version already recorded is skipped, a pending one is
\* applied and recorded; a database error makes run return Err and expect panic.
MigrateStep ==
    /\ pc = "migrate"
    /\ mIdx <= NumMigrations
    /\ IF ~dbUp
       THEN /\ pc' = "aborted_migrate"
            /\ exitCode' = 101
            /\ UNCHANGED <<applied, mIdx>>
       ELSE /\ applied' = IF IsApplied(mIdx) THEN applied ELSE Append(applied, mIdx)
            /\ mIdx' = mIdx + 1
            /\ UNCHANGED <<pc, exitCode>>
    /\ UNCHANGED <<databaseUrl, poolCreated, migrationsDone, listenerBound,
                   migratedAtStart, dbUp, inUse>>
    /\ UNCHANGED reqVars

\* main, lines 56-61: Migrator::run returns Ok after the last migration.
MigrateDone ==
    /\ pc = "migrate"
    /\ mIdx > NumMigrations
    /\ migrationsDone' = TRUE
    /\ pc' = "bind"
    /\ UNCHANGED <<databaseUrl, poolCreated, mIdx, listenerBound, exitCode,
                   applied, migratedAtStart, dbUp, inUse>>
    /\ UNCHANGED reqVars

\* HttpServer::bind(..) with its error dropped instead of returned by the ?.
BindIgnoringError ==
    /\ pc = "bind"
    /\ \E portFree \in BOOLEAN : listenerBound' = portFree
    /\ pc' = "serving"
    /\ UNCHANGED <<databaseUrl, poolCreated, migrationsDone, mIdx, exitCode,
                   applied, migratedAtStart, dbUp, inUse>>
    /\ UNCHANGED reqVars

\* main, lines 63-79: HttpServer::new(..).bind("0.0.0.0:8080")?.run(): the bind
\* succeeds when the port is free, and its io::Error is returned from main otherwise.
Bind ==
    /\ pc = "bind"
    /\ \E portFree \in BOOLEAN :
         IF portFree
         THEN /\ listenerBound' = TRUE
              /\ pc' = "serving"
              /\ exitCode' = exitCode
         ELSE /\ listenerBound' = FALSE
              /\ pc' = "exited_bind"
              /\ exitCode' = 1
    /\ UNCHANGED <<databaseUrl, poolCreated, migrationsDone, mIdx,
                   applied, migratedAtStart, dbUp, inUse>>
    /\ UNCHANGED reqVars

\* main, lines 78-79: run().await returns Ok(()) when the process is signalled.
Terminate ==
    /\ pc = "serving"
    /\ pc' = "terminated"
    /\ listenerBound' = FALSE
    /\ exitCode' = 0
    /\ inUse' = 0
    /\ rPc' = [r \in Requests |-> "idle"]
    /\ rRoute' = [r \in Requests |-> "/"]
    /\ rQuery' = [r \in Requests |-> "None"]
    /\ rAttempts' = [r \in Requests |-> 0]
    /\ rResp' = [r \in Requests |-> NoResponse]
    /\ rTrace' = [r \in Requests |-> << >>]
    /\ UNCHANGED <<databaseUrl, poolCreated, migrationsDone, mIdx,
                   applied, migratedAtStart, dbUp>>

Terminal == {"aborted_pool", "aborted_migrate", "exited_bind", "terminated"}

\* The process is started again (by its operator) against the same database file.
Restart ==
    /\ pc \in Terminal
    /\ pc' = "start"
    /\ databaseUrl' = ""
    /\ poolCreated' = FALSE
    /\ migrationsDone' = FALSE
    /\ mIdx' = 1
    /\ listenerBound' = FALSE
    /\ exitCode' = -1
    /\ migratedAtStart' = AllApplied
    /\ UNCHANGED <<applied, dbUp, inUse>>
    /\ UNCHANGED reqVars

\* The database file becomes unreachable, or reachable again.
DbToggle ==
    /\ dbUp' = ~dbUp
    /\ UNCHANGED procVars
    /\ UNCHANGED <<applied, inUse>>
    /\ UNCHANGED reqVars

(* ------------------------------- requests ------------------------------ *)

Serving == pc = "serving" /\ listenerBound

\* The response leaves through the middleware stack and is sent.
Respond(r, resp, events) ==
    /\ rResp' = [rResp EXCEPT ![r] = resp]
    /\ rTrace' = [rTrace EXCEPT ![r] = @ \o events \o OutboundTrace]
    /\ rPc' = [rPc EXCEPT ![r] = "done"]

\* HttpServer::run, lines 63-79: a worker accepts a GET request for some path.
Arrive(r) ==
    /\ Serving
    /\ rPc[r] = "idle"
    /\ \E route \in Routes : rRoute' = [rRoute EXCEPT ![r] = route]
    /\ rPc' = [rPc EXCEPT ![r] = "accepted"]
    /\ UNCHANGED procVars
    /\ UNCHANGED <<applied, dbUp, inUse, rQuery, rAttempts, rResp, rTrace>>

\* App, lines 70-75: the request passes the middleware stack, outermost layer
\* first, and the router selects the handler of its path.
Dispatch(r) ==
    /\ Serving
    /\ rPc[r] = "accepted"
    /\ rTrace' = [rTrace EXCEPT ![r] = InboundTrace \o << <<"handler", "call">> >>]
    /\ rPc' = [rPc EXCEPT ![r] = "handler"]
    /\ UNCHANGED procVars
    /\ UNCHANGED <<applied, dbUp, inUse, rRoute, rQuery, rAttempts, rResp>>

\* hello_world run on a worker that a suspended health check keeps occupied.
HelloWorldBlocking(r) ==
    /\ Serving
    /\ rPc[r] = "handler"
    /\ rRoute[r] = "/"
    /\ \A q \in Requests : rPc[q] \notin {"acquire", "query"}
    /\ Respond(r, hello_world, << >>)
    /\ UNCHANGED procVars
    /\ UNCHANGED <<applied, dbUp, inUse, rRoute, rQuery, rAttempts>>

\* hello_world, lines 34-38, behind route "/" (line 74).
HelloWorld(r) ==
    /\ Serving
    /\ rPc[r] = "handler"
    /\ rRoute[r] = "/"
    /\ Respond(r, hello_world, << >>)
    /\ UNCHANGED procVars
    /\ UNCHANGED <<applied, dbUp, inUse, rRoute, rQuery, rAttempts>>

\* A path with no route (lines 74-75 register only two): the framework's 404.
DefaultService(r) ==
    /\ Serving
    /\ rPc[r] = "handler"
    /\ rRoute[r] \notin {"/", "/api/health"}
    /\ Respond(r, NotFoundResponse, << >>)
    /\ UNCHANGED procVars
    /\ UNCHANGED <<applied, dbUp, inUse, rRoute, rQuery, rAttempts>>

\* health_check, line 22: fetch_one is called and awaits a pool connection.
HealthCheckBegin(r) ==
    /\ Serving
    /\ rPc[r] = "handler"
    /\ rRoute[r] = "/api/health"
    /\ rPc' = [rPc EXCEPT ![r] = "acquire"]
    /\ rAttempts' = [rAttempts EXCEPT ![r] = @ + 1]
    /\ UNCHANGED procVars
    /\ UNCHANGED <<applied, dbUp, inUse, rRoute, rQuery, rResp, rTrace>>

\* health_check, line 22: the pool hands a connection to the waiting fetch_one.
PoolAcquire(r) ==
    /\ Serving
    /\ rPc[r] = "acquire"
    /\ inUse < PoolSize
    /\ inUse' = inUse + 1
    /\ rPc' = [rPc EXCEPT ![r] = "query"]
    /\ UNCHANGED procVars
    /\ UNCHANGED <<applied, dbUp, rRoute, rQuery, rAttempts, rResp, rTrace>>

\* health_check, lines 22 and 27-30: every connection stays checked out for the
\* pool's acquire timeout, fetch_one returns Err(PoolTimedOut).
PoolTimeout(r) ==
    /\ Serving
    /\ rPc[r] = "acquire"
    /\ inUse >= PoolSize
    /\ rQuery' = [rQuery EXCEPT ![r] = "PoolTimedOut"]
    /\ Respond(r, health_check("PoolTimedOut"), health_check_log("PoolTimedOut"))
    /\ UNCHANGED procVars
    /\ UNCHANGED <<applied, dbUp, inUse, rRoute, rAttempts>>

QueryResult == IF dbUp THEN "Ok" ELSE "Io"

\* The query finishing without its connection going back to the pool.
QueryExecLeak(r) ==
    /\ Serving
    /\ rPc[r] = "query"
    /\ rQuery' = [rQuery EXCEPT ![r] = QueryResult]
    /\ Respond(r, health_check(QueryResult), health_check_log(QueryResult))
    /\ UNCHANGED procVars
    /\ UNCHANGED <<applied, dbUp, inUse, rRoute, rAttempts>>

\* A failed query issued a second time instead of answered.
QueryExecRetry(r) ==
    /\ Serving
    /\ rPc[r] = "query"
    /\ inUse' = inUse - 1
    /\ IF QueryResult # "Ok" /\ rAttempts[r] < 2
       THEN /\ rPc' = [rPc EXCEPT ![r] = "acquire"]
            /\ rAttempts' = [rAttempts EXCEPT ![r] = @ + 1]
            /\ UNCHANGED <<rQuery, rResp, rTrace>>
       ELSE /\ rQuery' = [rQuery EXCEPT ![r] = QueryResult]
            /\ Respond(r, health_check(QueryResult), health_check_log(QueryResult))
            /\ UNCHANGED rAttempts
    /\ UNCHANGED procVars
    /\ UNCHANGED <<applied, dbUp, rRoute>>

\* health_check, lines 22-31: SELECT 1 runs on the connection, the connection goes
\* back to the pool, and the match turns the result into the response.
QueryExec(r) ==
    /\ Serving
    /\ rPc[r] = "query"
    /\ inUse' = inUse - 1
    /\ rQuery' = [rQuery EXCEPT ![r] = QueryResult]
    /\ Respond(r, health_check(QueryResult), health_check_log(QueryResult))
    /\ UNCHANGED procVars
    /\ UNCHANGED <<applied, dbUp, rRoute, rAttempts>>

\* The connection of an answered request is closed; its slot takes a later request.
Recycle(r) ==
    /\ Serving
    /\ rPc[r] = "done"
    /\ rPc' = [rPc EXCEPT ![r] = "idle"]
    /\ rRoute' = [rRoute EXCEPT ![r] = "/"]
    /\ rQuery' = [rQuery EXCEPT ![r] = "None"]
    /\ rAttempts' = [rAttempts EXCEPT ![r] = 0]
    /\ rResp' = [rResp EXCEPT ![r] = NoResponse]
    /\ rTrace' = [rTrace EXCEPT ![r] = << >>]
    /\ UNCHANGED procVars
    /\ UNCHANGED <<applied, dbUp, inUse>>

(* ----------------------------- specification --------------------------- *)

Next ==
    \/ LoadConfig
    \/ ConnectPool
    \/ MigrateStep
    \/ MigrateDone
    \/ Bind
    \/ Terminate
    \/ Restart
    \/ DbToggle
    \/ \E r \in Requests : Arrive(r)
    \/ \E r \in Requests : Dispatch(r)
    \/ \E r \in Requests : HelloWorld(r)
    \/ \E r \in Requests : DefaultService(r)
    \/ \E r \in Requests : HealthCheckBegin(r)
    \/ \E r \in Requests : PoolAcquire(r)
    \/ \E r \in Requests : PoolTimeout(r)
    \/ \E r \in Requests : QueryExec(r)
    \/ \E r \in Requests : Recycle(r)

Spec == Init /\ [][Next]_vars

TypeOK ==
    /\ pc \in {"start", "connect", "migrate", "bind", "serving"} \cup Terminal
    /\ exitCode \in {-1, 0, 1, 101}
    /\ inUse \in 0..PoolSize
    /\ mIdx \in 1..(NumMigrations + 1)
    /\ \A r \in Requests :
         /\ rPc[r] \in {"idle", "accepted", "handler", "acquire", "query", "done"}
         /\ rRoute[r] \in Routes
         /\ rQuery[r] \in {"None", "Ok", "PoolTimedOut", "Io"}

(* -------------------------------- helpers ------------------------------ *)

HelloBody == [message |-> "Hello World from GroceryNana Backend!"]

HealthOkBody == [status |-> "ok", message |-> "Database connected"]

HealthErrorBody == [status |-> "error", message |-> "Database connection failed"]

IsHealth(r) == rRoute[r] = "/api/health"

Done(r) == rPc[r] = "done"

Failed(r) == Done(r) /\ IsHealth(r) /\ rQuery[r] \in {"PoolTimedOut", "Io"}

Has(tr, e) == \E i \in 1..Len(tr) : tr[i] = e

Pos(tr, e) == CHOOSE i \in 1..Len(tr) : tr[i] = e

Before(tr, e1, e2) == Has(tr, e1) /\ Has(tr, e2) /\ Pos(tr, e1) < Pos(tr, e2)

Suspended == {q \in Requests : IsHealth(q) /\ rPc[q] \in {"acquire", "query"}}

Aborted == {"aborted_pool", "aborted_migrate"}

(* --------------------------------- claims ------------------------------ *)

\* C1: every answered GET / request got status 200 and the body
\* {"message":"Hello World from GroceryNana Backend!"}, whatever the database state
\* and whatever the other requests are doing.
C1_HelloAlways200 ==
    \A r \in Requests :
        (Done(r) /\ rRoute[r] = "/") => rResp[r] = [status |-> 200, body |-> HelloBody]

\* A GET / answered while the database is down, one health check was answered 500
\* before and another one is in flight.
C1_Witness ==
    \E r, q, w \in Requests :
        /\ Done(r) /\ rRoute[r] = "/" /\ ~dbUp
        /\ Failed(q)
        /\ IsHealth(w) /\ rPc[w] \in {"acquire", "query"}

\* C2: an answered GET /api/health request has one of two outcomes, and it is the
\* 200 {"status":"ok","message":"Database connected"} one exactly when its SELECT 1
\* succeeded.
C2_HealthOkIffQueryOk ==
    \A r \in Requests :
        (Done(r) /\ IsHealth(r)) =>
            /\ rResp[r] \in {[status |-> 200, body |-> HealthOkBody],
                             [status |-> 500, body |-> HealthErrorBody]}
            /\ (rResp[r] = [status |-> 200, body |-> HealthOkBody]) <=> (rQuery[r] = "Ok")

\* One health check answered after a successful query, another after a failed one.
C2_Witness ==
    \E r, q \in Requests :
        /\ Done(r) /\ IsHealth(r) /\ rQuery[r] = "Ok"
        /\ Failed(q)

\* C3: a GET /api/health whose query failed (pool exhausted or I/O error) is answered
\* 500 {"status":"error","message":"Database connection failed"} after a single
\* attempt; the failing step leaves the process serving with its listener bound, and
\* a free slot can still accept a request.
C3_FailureIs500NoCrash ==
    /\ [](\A r \in Requests :
            Failed(r) =>
                /\ rResp[r] = [status |-> 500, body |-> HealthErrorBody]
                /\ rAttempts[r] = 1
                /\ pc = "serving" /\ listenerBound /\ exitCode = -1)
    /\ [][\A r \in Requests :
            (rQuery[r] = "None" /\ rQuery'[r] \in {"PoolTimedOut", "Io"}) =>
                (pc' = "serving" /\ listenerBound' /\ exitCode' = -1)]_vars

\* After one health check failed on I/O and one on pool exhaustion, a later GET / is
\* answered 200.
C3_Witness ==
    \E r, q, w \in Requests :
        /\ Failed(r) /\ rQuery[r] = "Io"
        /\ Failed(q) /\ rQuery[q] = "PoolTimedOut"
        /\ Done(w) /\ rRoute[w] = "/" /\ rResp[w].status = 200

\* C4: the listener is bound, and a request is handled, only after pool construction
\* and then the migration run succeeded; a run aborted by either has no port open and
\* no request handled, it came straight from the connect or migrate step, and it does
\* nothing more until it is started again.
C4_StartupOrdered ==
    /\ [](/\ listenerBound => (poolCreated /\ migrationsDone /\ AllApplied)
          /\ migrationsDone => poolCreated
          /\ (\E r \in Requests : rPc[r] # "idle") => (listenerBound /\ pc = "serving")
          /\ pc \in Aborted =>
                (~listenerBound /\ exitCode = 101 /\ \A r \in Requests : rPc[r] = "idle"))
    /\ [][(listenerBound' /\ ~listenerBound) => (pc = "bind" /\ poolCreated /\ migrationsDone)]_vars
    /\ [][(pc' \in Aborted /\ pc \notin Aborted) => (pc \in {"connect", "migrate"} /\ ~listenerBound)]_vars
    /\ [][(pc \in Aborted) => (pc' \in {pc, "start"})]_vars

\* A run aborted in the middle of the migrations: one applied, the port never opened.
C4_Witness ==
    /\ pc = "aborted_migrate"
    /\ Len(applied) = 1
    /\ ~listenerBound

\* C5 as stated: the process exits with failure only when pool creation or the
\* migration run failed; once both succeeded it runs until externally terminated.
C5_Original ==
    (poolCreated /\ migrationsDone) => exitCode \in {-1, 0}

\* C5 amended: the process exits with failure exactly when pool creation, the
\* migration run or binding the listener failed; a serving process has all three
\* behind it and leaves the serving state only by external termination.
C5_ExitOnlyOnStartupFailure ==
    /\ [](/\ (exitCode \notin {-1, 0}) <=> (pc \in {"aborted_pool", "aborted_migrate", "exited_bind"})
          /\ pc = "exited_bind" => (poolCreated /\ migrationsDone /\ ~listenerBound /\ exitCode = 1)
          /\ pc = "serving" => (poolCreated /\ migrationsDone /\ listenerBound /\ exitCode = -1))
    /\ [][(pc = "serving") => (pc' \in {"serving", "terminated"})]_vars

\* Pool and migrations succeeded, the port was taken, main returned the bind error.
C5_Witness ==
    /\ pc = "exited_bind"
    /\ poolCreated /\ migrationsDone
    /\ exitCode = 1

\* C6 as stated: a dispatched request passed the CORS policy first, then the
\* access-log middleware, then reached its handler.
C6_Original ==
    \A r \in Requests :
        Has(rTrace[r], <<"handler", "call">>) =>
            /\ Before(rTrace[r], <<"Cors", "in">>, <<"Logger", "in">>)
            /\ Before(rTrace[r], <<"Logger", "in">>, <<"handler", "call">>)

\* C6 amended: a dispatched request entered the access-log middleware first, then the
\* CORS policy, then reached its handler; the access-log record is written on the way
\* out, after the handler answered and after CORS treated the response.
C6_LoggerThenCorsThenHandler ==
    \A r \in Requests :
        /\ Has(rTrace[r], <<"handler", "call">>) =>
              /\ Before(rTrace[r], <<"Logger", "in">>, <<"Cors", "in">>)
              /\ Before(rTrace[r], <<"Cors", "in">>, <<"handler", "call">>)
        /\ Done(r) =>
              /\ Before(rTrace[r], <<"handler", "call">>, <<"Cors", "out">>)
              /\ Before(rTrace[r], <<"Cors", "out">>, <<"Logger", "out">>)

\* One request answered and another dispatched to its handler and not yet answered.
C6_Witness ==
    \E r, q \in Requests :
        /\ Done(r) /\ Len(rTrace[r]) = 5
        /\ rPc[q] = "acquire" /\ Len(rTrace[q]) = 3

C8_ErrorHiddenAndLogged ==
    \A r \in Requests :
        Failed(r) =>
            /\ rResp[r].body.message # rQuery[r]
            /\ Has(rTrace[r], <<"handler", "log_error">>)

C10_Original ==
    \A r \in Requests :
        (Done(r) /\ IsHealth(r) /\ rQuery[r] # "Io") => rResp[r].status = 200

\* C10 amended: the only state requests share is the pool, which a health check
\* changes only by holding a connection while its query runs; a health check's query
\* fails on I/O only with the database unreachable and on pool exhaustion only while
\* more health checks are in flight than the pool has connections, and nothing but
\* its own query result decides its response; GET / never touches the pool.
C10_IndependentUpToPoolBound ==
    /\ [](/\ inUse = Cardinality({q \in Requests : rPc[q] = "query"})
          /\ \A r \in Requests :
                (Done(r) /\ IsHealth(r)) =>
                    (rQuery[r] # "None" /\ rResp[r] = health_check(rQuery[r])))
    /\ [][\A r \in Requests :
            (rQuery[r] = "None" /\ rQuery'[r] = "PoolTimedOut") =>
                Cardinality(Suspended) > PoolSize]_vars
    /\ [][\A r \in Requests :
            (rQuery[r] = "None" /\ rQuery'[r] = "Io") => ~dbUp]_vars
    /\ [][\A r \in Requests :
            (rPc[r] = "handler" /\ rRoute[r] = "/" /\ rPc'[r] = "done") => inUse' = inUse]_vars

\* With the database reachable, one health check was answered 200 and another one,
\* in excess of the pool, 500.
C10_Witness ==
    \E r, q \in Requests :
        /\ dbUp
        /\ Done(r) /\ IsHealth(r) /\ rQuery[r] = "Ok"
        /\ Done(q) /\ IsHealth(q) /\ rQuery[q] = "PoolTimedOut"

====
